---- MODULE Spec2Model ----
(***************************************************************************)
(* Model of the Corsair H80i V2 control utilities.                         *)
(*   corsair_h80i_v2.c : the corsair_* functions over one corsair_device_t *)
(*                       (handle + 64-byte buffer), driven by any caller.  *)
(*   h80i_control.c    : main(), a straight-line open/claim/release run.   *)
(* libusb and the device are the environment: every libusb call returns    *)
(* one of the results the library documents, chosen nondeterministically.  *)
(***************************************************************************)
EXTENDS Integers, Sequences, FiniteSets, TLC

\* ---- program constants (corsair_h80i_v2.c) ----
EP_OUT == 2
EP_IN == 129
CMD_INIT == 0
CMD_GET_STATUS == 1
CMD_SET_PUMP == 19
CMD_SET_FAN == 18
CMD_SET_LED == 35
LED_MODE_PULSE == 2
BUFSZ == 64
MAX_PERCENT == 100
INIT_NOT_FOUND == -1
EXIT_FAILURE_1 == 1
INIT_SETTLE_US == 500000
STATUS_SETTLE_US == 50000

\* ---- libusb result codes (libusb.h) ----
LIBUSB_SUCCESS == 0
LIBUSB_ERROR_NO_DEVICE == -4
LIBUSB_ERROR_BUSY == -6
LIBUSB_ERROR_TIMEOUT == -7

\* ---- bounds ----
\* number of corsair_* calls a run makes
MaxOps == 3

Byte == 0..255
BufIdx == 0..(BUFSZ - 1)

\* errors a libusb call may return
UsbErrors == {LIBUSB_ERROR_NO_DEVICE, LIBUSB_ERROR_BUSY, LIBUSB_ERROR_TIMEOUT}

\* one libusb call: function, state of the handle it was given, result; for
\* "open" the second field is the device it looked for: "absent", "denied"
\* (attached but not openable) or "open"; libusb_init/libusb_exit get "ctx"
Call(fn, h, res) == [fn |-> fn, h |-> h, res |-> res]

\* memset(dev->buffer, 0, sizeof(dev->buffer))
ZeroBuf == [i \in BufIdx |-> 0]

FrameCopyAtZero(cmd, data) ==
  [i \in BufIdx |-> IF i < Len(data) THEN data[i + 1]
                    ELSE IF i = 0 THEN cmd ELSE 0]
\* memset + buffer[0] = cmd + memcpy(buffer + 1, data, data_len)
Frame(cmd, data) ==
  [i \in BufIdx |-> IF i = 0 THEN cmd
                    ELSE IF i <= Len(data) THEN data[i] ELSE 0]

ClampNoCap(p) == p
\* if (speed_percent > 100) speed_percent = 100;
Clamp(p) == IF p > MAX_PERCENT THEN MAX_PERCENT ELSE p

NoFrame == << >>
NoStatus == [valid |-> FALSE, temp10 |-> 0, pump |-> 0, fan1 |-> 0, fan2 |-> 0]

DecodeLittleEndian(buf) ==
  [valid |-> TRUE,
   temp10 |-> 10 * buf[1] + buf[2],
   pump |-> buf[3] + 256 * buf[4],
   fan1 |-> buf[5] + 256 * buf[6],
   fan2 |-> buf[7] + 256 * buf[8]]
\* the values printed by corsair_get_status; temperature in tenths of a degree
Decode(buf) ==
  [valid |-> TRUE,
   temp10 |-> 10 * buf[1] + buf[2],
   pump |-> 256 * buf[3] + buf[4],
   fan1 |-> 256 * buf[5] + buf[6],
   fan2 |-> 256 * buf[7] + buf[8]]

VARIABLES
  prog,      \* which program runs: "v2" (corsair_h80i_v2.c) or "control" (h80i_control.c)
  handle,    \* dev->handle: "NULL", "open", or "closed" (pointer to a handle already libusb_close()d)
  buffer,    \* dev->buffer
  claimed,   \* this process holds interface 0
  kdriver,   \* kernel driver on interface 0: "active", "detached" (by this process), "none"
  lastOp,    \* the operation that ran last
  prevOp,    \* the operation before it
  args,      \* its arguments
  ret,       \* its return value (exit status for main)
  calls,     \* the libusb calls it made, in order
  sent,      \* the frame it handed to the EP_OUT transfer, NoFrame if none
  report,    \* the status it printed, NoStatus if none
  crashed,   \* the process died in undefined behaviour
  nOps,      \* operations run so far
  nInitOk,   \* successful libusb_init calls
  nExit,     \* libusb_exit calls
  nOpen,     \* handles opened
  nClose,    \* libusb_close calls
  overrun,   \* bytes the last operation wrote past the end of dev->buffer
  transferred \* bytes the last operation's EP_IN transfer reported, 0 if none

vars == <<prog, handle, buffer, claimed, kdriver, lastOp, prevOp,
          args, ret, calls, sent, report, crashed, nOps, nInitOk, nExit, nOpen, nClose,
          overrun, transferred>>

Init ==
  /\ prog \in {"v2", "main", "control"}
  /\ handle = "NULL"
  /\ buffer = ZeroBuf
  /\ claimed = FALSE
  /\ kdriver \in {"active", "none"}
  /\ lastOp = "none"
  /\ prevOp = "none"
  /\ args = << >>
  /\ ret = 0
  /\ calls = << >>
  /\ sent = NoFrame
  /\ report = NoStatus
  /\ crashed = FALSE
  /\ nOps = 0
  /\ nInitOk = 0
  /\ nExit = 0
  /\ nOpen = 0
  /\ nClose = 0
  /\ overrun = 0
  /\ transferred = 0

\* main of corsair_h80i_v2.c: the calls it makes, in order, with their arguments
MainScript ==
  << <<"init", << >> >>,
     <<"get_status", << >> >>,
     <<"set_pump", <<70>> >>,
     <<"set_fan", <<0, 60>> >>,
     <<"set_fan", <<1, 60>> >>,
     <<"set_led", <<LED_MODE_PULSE, 0, 0, 255>> >>,
     <<"get_status", << >> >>,
     <<"close", << >> >> >>

MainIgnoresInitFailure(r) == FALSE
\* main: ret = corsair_init(&dev); if (ret < 0) return 1;
MainInitFailed(r) == r < 0

\* main has returned after a failed corsair_init
MainStopped == nOps = 1 /\ MainInitFailed(ret)

\* the caller of the corsair_* functions may make another call: any caller
\* (prog = "v2") up to MaxOps calls, main (prog = "main") to the end of its script
CanCall ==
  /\ ~crashed
  /\ IF prog = "v2" THEN nOps < MaxOps
     ELSE prog = "main" /\ nOps < Len(MainScript) /\ ~MainStopped

\* the next call may be op
Turn(op) == prog = "v2" \/ MainScript[nOps + 1][1] = op

\* the arguments of the next call: main's, or any of the set any
ArgsOf(any) == IF prog = "main" THEN {MainScript[nOps + 1][2]} ELSE any

\* bookkeeping common to every operation
Book(op, a) ==
  /\ lastOp' = op
  /\ prevOp' = lastOp
  /\ args' = a
  /\ nOps' = nOps + 1
  /\ prog' = prog

\* outcomes of libusb_interrupt_transfer on a handle in state h: a result on an
\* open handle; on NULL or a closed handle the call is undefined behaviour
\* (a crash, an error, or on freed memory an apparent success)
XferOutcomes(h) ==
  IF h = "open"
  THEN {[crash |-> FALSE, res |-> r] : r \in {LIBUSB_SUCCESS} \cup UsbErrors}
  ELSE {[crash |-> TRUE, res |-> 0]}
       \cup {[crash |-> FALSE, res |-> r] : r \in UsbErrors}
       \cup (IF h = "closed" THEN {[crash |-> FALSE, res |-> LIBUSB_SUCCESS]} ELSE {})


\* ---- corsair_send_command and the three setters ----

SendRetGeneric(r) == IF r < 0 THEN -1 ELSE 0
\* if (ret < 0) return ret; return 0;
SendRet(r) == IF r < 0 THEN r ELSE 0

\* bytes memcpy(dev->buffer + 1, data, data_len) stores past dev->buffer[63]
Overrun(data) == IF Len(data) > BUFSZ - 1 THEN Len(data) - (BUFSZ - 1) ELSE 0

\* corsair_send_command(dev, cmd, data, data_len) with transfer outcome o
SendOp(op, a, cmd, data, o) ==
  /\ Book(op, a)
  /\ buffer' = Frame(cmd, data)
  /\ sent' = Frame(cmd, data)
  /\ calls' = <<Call("xfer_out", handle, o.res)>>
  /\ crashed' = o.crash
  /\ ret' = IF o.crash THEN ret ELSE SendRet(o.res)
  /\ report' = NoStatus
  /\ overrun' = Overrun(data)
  /\ transferred' = 0
  /\ UNCHANGED <<handle, claimed, kdriver, nInitOk, nExit, nOpen, nClose>>

\* percents, fan ids and LED arguments a caller other than main passes
Percents == {0, 100, 101, 255}
FanIds == {2, 255}
LedModes == {0, 3}
Colours == {<<255, 128, 1>>}

\* data[0] = speed_percent; (data[1] stays 0)
PumpPayload(p) == <<Clamp(p), 0>>

FanPayloadSwapped(f, p) == <<Clamp(p), f>>
\* data[0] = fan_id; data[1] = speed_percent;
FanPayload(f, p) == <<f, Clamp(p)>>

\* data[0] = mode; data[1] = r; data[2] = g; data[3] = b;
LedPayload(m, r, g, b) == <<m, r, g, b>>

corsair_set_pump_speed ==
  /\ CanCall /\ Turn("set_pump")
  /\ \E a \in ArgsOf({<<p>> : p \in Percents}), o \in XferOutcomes(handle) :
       SendOp("set_pump", a, CMD_SET_PUMP, PumpPayload(a[1]), o)

corsair_set_fan_speed ==
  /\ CanCall /\ Turn("set_fan")
  /\ \E a \in ArgsOf({<<f, p>> : f \in FanIds, p \in Percents}), o \in XferOutcomes(handle) :
       SendOp("set_fan", a, CMD_SET_FAN, FanPayload(a[1], a[2]), o)

corsair_set_led ==
  /\ CanCall /\ Turn("set_led")
  /\ \E a \in ArgsOf({<<m>> \o c : m \in LedModes, c \in Colours}),
        o \in XferOutcomes(handle) :
       SendOp("set_led", a, CMD_SET_LED, LedPayload(a[1], a[2], a[3], a[4]), o)

\* opcodes and payloads a caller hands to corsair_send_command directly: no
\* payload, the largest that fits (63 bytes) and one that does not
RawCmds == {255}
Pay(n) == [i \in 1..n |-> 1 + (i % 250)]
RawPayloads == {Pay(0), Pay(BUFSZ - 1), Pay(BUFSZ)}

\* corsair_send_command called directly; a memcpy that runs past the buffer is
\* undefined behaviour: the process may die of the corrupted memory or go on
corsair_send_command ==
  /\ CanCall /\ Turn("send_command")
  /\ \E cmd \in RawCmds, data \in RawPayloads, o \in XferOutcomes(handle), c \in BOOLEAN :
       /\ c => Overrun(data) > 0
       /\ SendOp("send_command", <<cmd, data>>, cmd, data,
                 [crash |-> o.crash \/ c, res |-> o.res])

\* ---- corsair_receive_response and corsair_get_status ----

\* frames the device may answer with
ExampleResp ==
  [i \in BufIdx |-> CASE i = 1 -> 25 [] i = 2 -> 5 [] i = 3 -> 11 [] i = 4 -> 184
                      [] i = 5 -> 12 [] i = 6 -> 28 [] i = 7 -> 12 [] i = 8 -> 28
                      [] OTHER -> 0]
FullResp == [i \in BufIdx |-> 255]
Responses == {ExampleResp, FullResp}

\* bytes a failed read may already have stored
PartialLens == {0, 5}

\* bytes a successful read may deliver
ReadLens == {0, 2, 9, BUFSZ}

RecvBufNoClear(resp, n) ==
  [i \in BufIdx |-> IF i < n THEN resp[i] ELSE Frame(CMD_GET_STATUS, << >>)[i]]
\* the buffer after memset and a read that stored the first n bytes of resp
RecvBuf(resp, n) == [i \in BufIdx |-> IF i < n THEN resp[i] ELSE 0]

SendNeverAborts(r) == FALSE
\* corsair_get_status: if (ret < 0) return ret; after corsair_send_command
SendAborts(r) == r < 0

RecvNeverAborts(r) == FALSE
\* corsair_get_status: if (ret < 0) return ret; after corsair_receive_response
RecvAborts(r) == r < 0

\* the calls of a corsair_get_status that gets as far as the read: the write
\* with result w, usleep(50000), the read with result r
GetStatusCallsRetry(h, w, r) ==
  <<Call("xfer_out", h, w), Call("usleep", "time", STATUS_SETTLE_US),
    Call("xfer_in", h, r), Call("xfer_in", h, r)>>
GetStatusCalls(h, w, r) ==
  <<Call("xfer_out", h, w), Call("usleep", "time", STATUS_SETTLE_US), Call("xfer_in", h, r)>>

GetStatusRest ==
  UNCHANGED <<handle, claimed, kdriver, nInitOk, nExit, nOpen, nClose>>

\* the write crashed, or failed and the operation stops there
GetStatusSendStop ==
  /\ CanCall /\ Turn("get_status")
  /\ \E o \in XferOutcomes(handle) :
       /\ o.crash \/ SendAborts(SendRet(o.res))
       /\ Book("get_status", << >>)
       /\ overrun' = 0
       /\ buffer' = Frame(CMD_GET_STATUS, << >>)
       /\ sent' = Frame(CMD_GET_STATUS, << >>)
       /\ calls' = <<Call("xfer_out", handle, o.res)>>
       /\ crashed' = o.crash
       /\ ret' = IF o.crash THEN ret ELSE SendRet(o.res)
       /\ report' = NoStatus
       /\ transferred' = 0
       /\ GetStatusRest

\* the write went through, the read crashed or failed
GetStatusRecvStop ==
  /\ CanCall /\ Turn("get_status")
  /\ \E o \in XferOutcomes(handle), i \in XferOutcomes(handle),
        resp \in Responses, n \in PartialLens :
       /\ ~o.crash /\ ~SendAborts(SendRet(o.res))
       /\ i.crash \/ (i.res < 0 /\ RecvAborts(i.res))
       /\ Book("get_status", << >>)
       /\ overrun' = 0
       /\ buffer' = IF i.crash THEN ZeroBuf ELSE RecvBuf(resp, n)
       /\ sent' = Frame(CMD_GET_STATUS, << >>)
       /\ calls' = GetStatusCalls(handle, o.res, i.res)
       /\ crashed' = i.crash
       /\ ret' = IF i.crash THEN ret ELSE i.res
       /\ report' = NoStatus
       /\ transferred' = IF i.crash THEN 0 ELSE n
       /\ GetStatusRest

\* both transfers returned without aborting the operation: the buffer is printed
GetStatusPrint ==
  /\ CanCall /\ Turn("get_status")
  /\ \E o \in XferOutcomes(handle), i \in XferOutcomes(handle),
        resp \in Responses, n \in ReadLens \cup PartialLens :
       /\ ~o.crash /\ ~SendAborts(SendRet(o.res))
       /\ ~i.crash
       /\ IF i.res < 0 THEN ~RecvAborts(i.res) /\ n \in PartialLens ELSE n \in ReadLens
       /\ Book("get_status", << >>)
       /\ overrun' = 0
       /\ buffer' = RecvBuf(resp, n)
       /\ sent' = Frame(CMD_GET_STATUS, << >>)
       /\ calls' = GetStatusCalls(handle, o.res, i.res)
       /\ crashed' = FALSE
       /\ ret' = 0
       /\ report' = Decode(RecvBuf(resp, n))
       /\ transferred' = n
       /\ GetStatusRest

corsair_get_status == GetStatusSendStop \/ GetStatusRecvStop \/ GetStatusPrint


\* ---- corsair_close ----

\* if (dev->handle)
CloseNeeded(h) == h # "NULL"

HandleKeptAfterClose == "closed"
\* dev->handle = NULL;
HandleAfterClose == "NULL"

\* libusb_release_interface on handle state h
ReleaseResults(h, cl) ==
  IF h = "open" /\ cl THEN {LIBUSB_SUCCESS} \cup UsbErrors ELSE UsbErrors

\* libusb_attach_kernel_driver: can succeed only if the driver is detached
AttachResults(h, kd) ==
  IF h = "open" /\ kd = "detached" THEN {LIBUSB_SUCCESS} \cup UsbErrors ELSE UsbErrors

\* the libusb calls of corsair_close, none of whose results is looked at
CloseCalls(h, rr, ar) ==
  IF CloseNeeded(h)
  THEN <<Call("release_interface", h, rr), Call("attach_kernel_driver", h, ar),
         Call("close", h, 0), Call("exit", "ctx", 0)>>
  ELSE << >>

\* the kernel driver after the calls cs
KdAfter(kd, cs) ==
  IF \E k \in 1..Len(cs) : cs[k].fn = "attach_kernel_driver" /\ cs[k].res = LIBUSB_SUCCESS
  THEN "active"
  ELSE IF \E k \in 1..Len(cs) : cs[k].fn = "detach_kernel_driver" /\ cs[k].res = LIBUSB_SUCCESS
  THEN "detached"
  ELSE kd

\* number of calls of fn in cs
RECURSIVE CountFn(_, _)
CountFn(cs, fn) ==
  IF cs = << >> THEN 0
  ELSE (IF Head(cs).fn = fn THEN 1 ELSE 0) + CountFn(Tail(cs), fn)

\* corsair_close with a NULL handle: nothing happens
CloseNoop ==
  /\ CanCall /\ Turn("close")
  /\ ~CloseNeeded(handle)
  /\ Book("close", << >>)
  /\ overrun' = 0
  /\ transferred' = 0
  /\ calls' = << >>
  /\ sent' = NoFrame
  /\ report' = NoStatus
  /\ UNCHANGED <<handle, buffer, claimed, kdriver, ret, crashed,
                 nInitOk, nExit, nOpen, nClose>>

\* corsair_close with a handle to tear down
CloseTeardown ==
  /\ CanCall /\ Turn("close")
  /\ CloseNeeded(handle)
  /\ \E rr \in ReleaseResults(handle, claimed), ar \in AttachResults(handle, kdriver) :
       LET cs == CloseCalls(handle, rr, ar) IN
       /\ Book("close", << >>)
       /\ overrun' = 0
       /\ transferred' = 0
       /\ calls' = cs
       /\ handle' = HandleAfterClose
       /\ claimed' = FALSE
       /\ kdriver' = KdAfter(kdriver, cs)
       /\ nClose' = nClose + CountFn(cs, "close")
       /\ nExit' = nExit + CountFn(cs, "exit")
       /\ sent' = NoFrame
       /\ report' = NoStatus
       /\ crashed' = FALSE
       /\ UNCHANGED <<buffer, ret, nInitOk, nOpen>>

\* corsair_close on a handle that was already libusb_close()d: the first libusb
\* call reads freed memory and the process may die there
CloseCrash ==
  /\ CanCall /\ Turn("close")
  /\ CloseNeeded(handle)
  /\ handle = "closed"
  /\ Book("close", << >>)
  /\ overrun' = 0
  /\ transferred' = 0
  /\ calls' = <<Call("release_interface", handle, LIBUSB_ERROR_NO_DEVICE)>>
  /\ crashed' = TRUE
  /\ sent' = NoFrame
  /\ report' = NoStatus
  /\ UNCHANGED <<handle, buffer, claimed, kdriver, ret,
                 nInitOk, nExit, nOpen, nClose>>

corsair_close == CloseNoop \/ CloseTeardown \/ CloseCrash


\* ---- acquiring the device ----

\* libusb_kernel_driver_active: 1 if a driver is bound, 0 if not, or an error
KaResults(kd) == {IF kd = "active" THEN 1 ELSE 0, LIBUSB_ERROR_NO_DEVICE}

\* libusb_detach_kernel_driver: can succeed only if a driver is bound
DetachResults(kd) == IF kd = "active" THEN {LIBUSB_SUCCESS} \cup UsbErrors ELSE UsbErrors

\* libusb_claim_interface: LIBUSB_ERROR_BUSY exactly when another process holds it
ClaimResults(other) ==
  IF other THEN {LIBUSB_ERROR_BUSY} ELSE {LIBUSB_SUCCESS} \cup (UsbErrors \ {LIBUSB_ERROR_BUSY})

\* corsair_init: if (libusb_kernel_driver_active(dev->handle, 0))
V2DetachIf(ka) == ka # 0
\* h80i_control.c: if (libusb_kernel_driver_active(dev_handle, 0) == 1)
CtlDetachIf(ka) == ka = 1
\* corsair_init: if (ret < 0) after libusb_detach_kernel_driver
V2DetachFailed(d) == d < 0
\* h80i_control.c: if (libusb_detach_kernel_driver(dev_handle, 0) != 0)
CtlDetachFailed(d) == d # 0

\* the calls of the "detach kernel driver if active" step: ka is the result of
\* kernel_driver_active, det whether detach is called, d its result
KCalls(ka, det, d) ==
  <<Call("kernel_driver_active", "open", ka)>>
  \o (IF det THEN <<Call("detach_kernel_driver", "open", d)>> ELSE << >>)

InitGuard == CanCall /\ Turn("init") /\ handle # "open"

\* libusb_init fails
InitLibFail ==
  /\ InitGuard
  /\ \E e \in UsbErrors :
       /\ Book("init", << >>)
       /\ overrun' = 0
       /\ transferred' = 0
       /\ calls' = <<Call("init", "ctx", e)>>
       /\ ret' = e
       /\ sent' = NoFrame
       /\ report' = NoStatus
       /\ UNCHANGED <<handle, buffer, claimed, kdriver, crashed,
                      nInitOk, nExit, nOpen, nClose>>

NotFoundCallsNoExit(c) == <<Call("init", "ctx", 0), Call("open", c, 0)>>
\* corsair_init up to the return after libusb_open_device_with_vid_pid gave NULL
NotFoundCalls(c) == <<Call("init", "ctx", 0), Call("open", c, 0), Call("exit", "ctx", 0)>>

\* no device with the vid/pid, or one that cannot be opened: the open returns NULL
InitNoDevice ==
  /\ InitGuard
  /\ \E c \in {"absent", "denied"} :
       /\ Book("init", << >>)
       /\ overrun' = 0
       /\ transferred' = 0
       /\ handle' = "NULL"
       /\ calls' = NotFoundCalls(c)
       /\ ret' = INIT_NOT_FOUND
       /\ nInitOk' = nInitOk + 1
       /\ nExit' = nExit + CountFn(NotFoundCalls(c), "exit")
       /\ sent' = NoFrame
       /\ report' = NoStatus
       /\ UNCHANGED <<buffer, claimed, kdriver, crashed, nOpen, nClose>>

DetachFailCallsThenClaim(ka, d) ==
  <<Call("init", "ctx", 0), Call("open", "open", 0)>> \o KCalls(ka, TRUE, d)
  \o <<Call("claim_interface", "open", 0), Call("close", "open", 0), Call("exit", "ctx", 0)>>
\* corsair_init up to the return after a failed libusb_detach_kernel_driver
DetachFailCalls(ka, d) ==
  <<Call("init", "ctx", 0), Call("open", "open", 0)>> \o KCalls(ka, TRUE, d)
  \o <<Call("close", "open", 0), Call("exit", "ctx", 0)>>

InitDetachFail ==
  /\ InitGuard
  /\ \E ka \in KaResults(kdriver), d \in DetachResults(kdriver) :
       LET cs == DetachFailCalls(ka, d) IN
       /\ V2DetachIf(ka) /\ V2DetachFailed(d)
       /\ Book("init", << >>)
       /\ overrun' = 0
       /\ transferred' = 0
       /\ handle' = "closed"
       /\ calls' = cs
       /\ ret' = d
       /\ claimed' = (CountFn(cs, "claim_interface") > 0)
       /\ nInitOk' = nInitOk + 1
       /\ nExit' = nExit + CountFn(cs, "exit")
       /\ nOpen' = nOpen + 1
       /\ nClose' = nClose + CountFn(cs, "close")
       /\ sent' = NoFrame
       /\ report' = NoStatus
       /\ UNCHANGED <<buffer, kdriver, crashed>>

\* the driver step of corsair_init that lets it go on to the claim
V2KPaths(kd) ==
  {[ka |-> ka, det |-> FALSE, d |-> 0] : ka \in {k \in KaResults(kd) : ~V2DetachIf(k)}}
  \cup {[ka |-> ka, det |-> TRUE, d |-> d] :
          ka \in {k \in KaResults(kd) : V2DetachIf(k)},
          d \in {x \in DetachResults(kd) : ~V2DetachFailed(x)}}

InitClaimFail ==
  /\ InitGuard
  /\ \E k \in V2KPaths(kdriver), other \in BOOLEAN :
     \E c \in ClaimResults(other) :
       LET cs == <<Call("init", "ctx", 0), Call("open", "open", 0)>> \o KCalls(k.ka, k.det, k.d)
                 \o <<Call("claim_interface", "open", c), Call("close", "open", 0),
                      Call("exit", "ctx", 0)>> IN
       /\ c < 0
       /\ Book("init", << >>)
       /\ overrun' = 0
       /\ transferred' = 0
       /\ handle' = "closed"
       /\ calls' = cs
       /\ ret' = c
       /\ kdriver' = KdAfter(kdriver, cs)
       /\ nInitOk' = nInitOk + 1
       /\ nExit' = nExit + 1
       /\ nOpen' = nOpen + 1
       /\ nClose' = nClose + 1
       /\ sent' = NoFrame
       /\ report' = NoStatus
       /\ UNCHANGED <<buffer, claimed, crashed>>

InitXferFailNoCleanup(rr, ar) == << >>
\* corsair_init: corsair_close(dev) after the failed INIT write
InitXferFailCleanup(rr, ar) == CloseCalls("open", rr, ar)

\* corsair_init: return ret; after the failed INIT write and corsair_close
InitXferFailRet(x, rr, ar) == x

\* interface claimed, the INIT write fails
InitXferFail ==
  /\ InitGuard
  /\ \E k \in V2KPaths(kdriver), x \in UsbErrors :
     \E rr \in ReleaseResults("open", TRUE),
        ar \in AttachResults("open", KdAfter(kdriver, KCalls(k.ka, k.det, k.d))) :
       LET td == InitXferFailCleanup(rr, ar)
           cs == <<Call("init", "ctx", 0), Call("open", "open", 0)>> \o KCalls(k.ka, k.det, k.d)
                 \o <<Call("claim_interface", "open", 0), Call("xfer_out", "open", x)>> \o td IN
       /\ Book("init", << >>)
       /\ overrun' = 0
       /\ transferred' = 0
       /\ buffer' = Frame(CMD_INIT, << >>)
       /\ sent' = Frame(CMD_INIT, << >>)
       /\ handle' = IF CountFn(td, "close") > 0 THEN HandleAfterClose ELSE "open"
       /\ claimed' = (CountFn(td, "close") = 0)
       /\ calls' = cs
       /\ ret' = InitXferFailRet(x, rr, ar)
       /\ kdriver' = KdAfter(kdriver, cs)
       /\ nInitOk' = nInitOk + 1
       /\ nExit' = nExit + CountFn(td, "exit")
       /\ nOpen' = nOpen + 1
       /\ nClose' = nClose + CountFn(td, "close")
       /\ report' = NoStatus
       /\ UNCHANGED crashed

\* corsair_init succeeds
InitOk ==
  /\ InitGuard
  /\ \E k \in V2KPaths(kdriver) :
       LET cs == <<Call("init", "ctx", 0), Call("open", "open", 0)>> \o KCalls(k.ka, k.det, k.d)
                 \o <<Call("claim_interface", "open", 0), Call("xfer_out", "open", 0),
                      Call("usleep", "time", INIT_SETTLE_US)>> IN
       /\ Book("init", << >>)
       /\ overrun' = 0
       /\ transferred' = 0
       /\ buffer' = Frame(CMD_INIT, << >>)
       /\ sent' = Frame(CMD_INIT, << >>)
       /\ handle' = "open"
       /\ claimed' = TRUE
       /\ calls' = cs
       /\ ret' = 0
       /\ kdriver' = KdAfter(kdriver, cs)
       /\ nInitOk' = nInitOk + 1
       /\ nOpen' = nOpen + 1
       /\ report' = NoStatus
       /\ UNCHANGED <<crashed, nExit, nClose>>

corsair_init ==
  InitLibFail \/ InitNoDevice \/ InitDetachFail \/ InitClaimFail \/ InitXferFail \/ InitOk


\* ---- h80i_control.c: main ----

CtlGuard == prog = "control" /\ nOps = 0

\* the driver step of main that lets it go on to the claim
CtlKPaths(kd) ==
  {[ka |-> ka, det |-> FALSE, d |-> 0] : ka \in {k \in KaResults(kd) : ~CtlDetachIf(k)}}
  \cup {[ka |-> ka, det |-> TRUE, d |-> d] :
          ka \in {k \in KaResults(kd) : CtlDetachIf(k)},
          d \in {x \in DetachResults(kd) : ~CtlDetachFailed(x)}}

\* what every path of main leaves alone or resets
CtlRest ==
  /\ Book("control_main", << >>)
  /\ overrun' = 0
  /\ transferred' = 0
  /\ sent' = NoFrame
  /\ report' = NoStatus
  /\ claimed' = FALSE
  /\ UNCHANGED <<buffer, crashed>>

CtlLibFail ==
  /\ CtlGuard
  /\ \E e \in UsbErrors :
       /\ CtlRest
       /\ calls' = <<Call("init", "ctx", e)>>
       /\ ret' = EXIT_FAILURE_1
       /\ UNCHANGED <<handle, kdriver, nInitOk, nExit, nOpen, nClose>>

CtlNoDevice ==
  /\ CtlGuard
  /\ \E c \in {"absent", "denied"} :
       /\ CtlRest
       /\ calls' = <<Call("init", "ctx", 0), Call("open", c, 0), Call("exit", "ctx", 0)>>
       /\ ret' = EXIT_FAILURE_1
       /\ nInitOk' = nInitOk + 1
       /\ nExit' = nExit + 1
       /\ UNCHANGED <<handle, kdriver, nOpen, nClose>>

CtlDetachFail ==
  /\ CtlGuard
  /\ \E ka \in KaResults(kdriver), d \in DetachResults(kdriver) :
       /\ CtlDetachIf(ka) /\ CtlDetachFailed(d)
       /\ CtlRest
       /\ handle' = "closed"
       /\ calls' = <<Call("init", "ctx", 0), Call("open", "open", 0)>> \o KCalls(ka, TRUE, d)
                   \o <<Call("close", "open", 0), Call("exit", "ctx", 0)>>
       /\ ret' = EXIT_FAILURE_1
       /\ nInitOk' = nInitOk + 1
       /\ nExit' = nExit + 1
       /\ nOpen' = nOpen + 1
       /\ nClose' = nClose + 1
       /\ UNCHANGED kdriver

CtlClaimFail ==
  /\ CtlGuard
  /\ \E k \in CtlKPaths(kdriver), other \in BOOLEAN :
     \E c \in ClaimResults(other) :
       LET cs == <<Call("init", "ctx", 0), Call("open", "open", 0)>> \o KCalls(k.ka, k.det, k.d)
                 \o <<Call("claim_interface", "open", c), Call("close", "open", 0),
                      Call("exit", "ctx", 0)>> IN
       /\ c < 0
       /\ CtlRest
       /\ handle' = "closed"
       /\ calls' = cs
       /\ ret' = EXIT_FAILURE_1
       /\ kdriver' = KdAfter(kdriver, cs)
       /\ nInitOk' = nInitOk + 1
       /\ nExit' = nExit + 1
       /\ nOpen' = nOpen + 1
       /\ nClose' = nClose + 1

\* the interface is claimed; main releases it, closes the device and exits
CtlOk ==
  /\ CtlGuard
  /\ \E k \in CtlKPaths(kdriver), rr \in ReleaseResults("open", TRUE) :
       LET cs == <<Call("init", "ctx", 0), Call("open", "open", 0)>> \o KCalls(k.ka, k.det, k.d)
                 \o <<Call("claim_interface", "open", 0), Call("release_interface", "open", rr),
                      Call("close", "open", 0), Call("exit", "ctx", 0)>> IN
       /\ CtlRest
       /\ handle' = "closed"
       /\ calls' = cs
       /\ ret' = 0
       /\ kdriver' = KdAfter(kdriver, cs)
       /\ nInitOk' = nInitOk + 1
       /\ nExit' = nExit + 1
       /\ nOpen' = nOpen + 1
       /\ nClose' = nClose + 1

control_main == CtlLibFail \/ CtlNoDevice \/ CtlDetachFail \/ CtlClaimFail \/ CtlOk

\* ---- the specification ----

Next ==
  \/ corsair_init
  \/ corsair_set_pump_speed
  \/ corsair_set_fan_speed
  \/ corsair_set_led
  \/ corsair_send_command
  \/ corsair_get_status
  \/ corsair_close
  \/ control_main

Spec == Init /\ [][Next]_vars

TypeOK ==
  /\ handle \in {"NULL", "open", "closed"}
  /\ \A i \in BufIdx : buffer[i] \in Byte
  /\ nOps \in 0..(IF prog = "main" THEN Len(MainScript) ELSE MaxOps)
  /\ overrun \in 0..BUFSZ
  /\ transferred \in 0..BUFSZ


\* ---- properties ----

\* positions in the last operation's libusb calls where fn was called
CallIdx(fn) == {k \in 1..Len(calls) : calls[k].fn = fn}
Called(fn) == CallIdx(fn) # {}
IsTransfer(c) == c.fn \in {"xfer_out", "xfer_in"}

\* C1: a corsair_close that directly follows a corsair_close makes no libusb
\* call at all (no release_interface, attach_kernel_driver, close or exit) and
\* does not fail: the first call left dev->handle NULL.
C1_SecondCloseIsNoop ==
  (lastOp = "close" /\ prevOp = "close") =>
     /\ calls = << >>
     /\ ~crashed
     /\ handle = "NULL"

\* corsair_init succeeded, then corsair_close ran twice
C1_Witness ==
  /\ lastOp = "close" /\ prevOp = "close"
  /\ nOps = 3 /\ nOpen = 1 /\ nClose = 1 /\ nExit = 1
  /\ ret = 0
  /\ calls = << >>

\* C2: when the INIT write of corsair_init fails after the interface was
\* claimed, corsair_init releases the interface and closes the handle before it
\* returns, and returns the error of the INIT write whatever the teardown
\* calls returned.
C2_InitWriteFailureTearsDown ==
  (lastOp = "init" /\ \E k \in CallIdx("xfer_out") : calls[k].res < 0) =>
     \E c \in CallIdx("claim_interface"), k \in CallIdx("xfer_out"),
        r \in CallIdx("release_interface"), x \in CallIdx("close") :
       /\ calls[c].res = LIBUSB_SUCCESS
       /\ c < k /\ k < r /\ r < x
       /\ ret = calls[k].res
       /\ handle = "NULL"
       /\ ~claimed

\* the INIT write timed out and the interface release failed with another error
C2_Witness ==
  /\ lastOp = "init"
  /\ \E k \in CallIdx("xfer_out"), r \in CallIdx("release_interface") :
       /\ calls[k].res = LIBUSB_ERROR_TIMEOUT
       /\ calls[r].res = LIBUSB_ERROR_NO_DEVICE
  /\ ret = LIBUSB_ERROR_TIMEOUT
  /\ handle = "NULL"

\* C3: write and read happen only in state Claimed: every transfer is issued
\* on an open handle, and a send or receive on a handle that is not open
\* issues no transfer and returns an error.
C3_TransfersOnlyWhenClaimed ==
  /\ \A k \in 1..Len(calls) : IsTransfer(calls[k]) => calls[k].h = "open"
  /\ (lastOp \in {"set_pump", "set_fan", "set_led", "get_status"} /\ handle # "open") =>
        (calls = << >> /\ ret < 0 /\ ~crashed)

\* C4: in corsair_get_status, when the write of the GET_STATUS frame fails, the
\* operation returns that error, makes no read transfer and prints no status.
C4_FailedWriteSkipsRead ==
  (lastOp = "get_status" /\ ~crashed /\ calls[1].fn = "xfer_out" /\ calls[1].res < 0) =>
     /\ Len(calls) = 1
     /\ ~Called("xfer_in")
     /\ ret = calls[1].res
     /\ report = NoStatus

\* the GET_STATUS write on a claimed handle timed out
C4_Witness ==
  /\ lastOp = "get_status"
  /\ handle = "open" /\ claimed
  /\ calls = <<Call("xfer_out", "open", LIBUSB_ERROR_TIMEOUT)>>
  /\ sent[0] = CMD_GET_STATUS
  /\ ret = LIBUSB_ERROR_TIMEOUT

\* C5: in corsair_get_status, when the write succeeds and the read times out,
\* the operation returns the timeout error and prints no status, whatever the
\* buffer holds.
C5_ReadTimeoutNoStatus ==
  (/\ lastOp = "get_status" /\ ~crashed
   /\ calls[1].fn = "xfer_out" /\ calls[1].res = LIBUSB_SUCCESS
   /\ \E k \in CallIdx("xfer_in") : calls[k].res = LIBUSB_ERROR_TIMEOUT) =>
     /\ ret = LIBUSB_ERROR_TIMEOUT
     /\ ~report.valid

\* the read on a claimed handle timed out after storing some bytes
C5_Witness ==
  /\ lastOp = "get_status"
  /\ handle = "open" /\ claimed
  /\ calls = <<Call("xfer_out", "open", LIBUSB_SUCCESS),
               Call("usleep", "time", STATUS_SETTLE_US),
               Call("xfer_in", "open", LIBUSB_ERROR_TIMEOUT)>>
  /\ buffer[1] # 0
  /\ ret = LIBUSB_ERROR_TIMEOUT


\* the last corsair_init looked for the device and found none attached
InitFoundNoDevice ==
  lastOp = "init" /\ \E k \in CallIdx("open") : calls[k].h = "absent"

\* C6: when corsair_init finds no matching device it returns the not-found
\* value and holds nothing: the interface is not claimed, dev->handle is NULL
\* and libusb_exit was called after the failed open; a corsair_close that
\* follows makes no libusb call.
C6_NotFoundLeavesNothing ==
  /\ [](InitFoundNoDevice =>
          /\ ret = INIT_NOT_FOUND
          /\ handle = "NULL"
          /\ ~claimed
          /\ ~Called("claim_interface")
          /\ \E k \in CallIdx("open"), x \in CallIdx("exit") : k < x)
  /\ [][(InitFoundNoDevice /\ lastOp' = "close") =>
          (calls' = << >> /\ ~crashed'
           /\ UNCHANGED <<handle, claimed, kdriver, nExit, nClose>>)]_vars

\* corsair_init found no device and corsair_close ran after it
C6_Witness ==
  /\ lastOp = "close" /\ prevOp = "init"
  /\ nOps = 2 /\ nInitOk = 1 /\ nExit = 1 /\ nOpen = 0
  /\ ret = INIT_NOT_FOUND
  /\ calls = << >>
  /\ handle = "NULL"

\* the failure value of the program that ran
NotFoundValue == IF lastOp = "init" THEN INIT_NOT_FOUND ELSE EXIT_FAILURE_1

\* C7: acquire tells its failures apart: the value it returns when no device
\* is attached (NotFound) is never the value it returns when the device is
\* attached but cannot be opened (AccessDenied) or when another process holds
\* the interface (AlreadyClaimed).
C7_ErrorKindsDistinct ==
  lastOp \in {"init", "control_main"} =>
     /\ (\E k \in CallIdx("open") : calls[k].h = "absent") => ret = NotFoundValue
     /\ (\E k \in CallIdx("open") : calls[k].h = "denied") => ret # NotFoundValue
     /\ (\E k \in CallIdx("claim_interface") : calls[k].res = LIBUSB_ERROR_BUSY) =>
          ret # NotFoundValue

\* C8: when detaching the kernel driver fails, acquire stops there: it never
\* calls claim_interface, closes the handle it opened, exits the library
\* context and writes no INIT frame; corsair_init returns the detach error and
\* main of h80i_control.c exits with failure.
C8_DetachFailureLeavesNoClaim ==
  (/\ lastOp \in {"init", "control_main"}
   /\ \E k \in CallIdx("detach_kernel_driver") : calls[k].res # LIBUSB_SUCCESS) =>
     \E k \in CallIdx("detach_kernel_driver"), x \in CallIdx("close"), e \in CallIdx("exit") :
       /\ k < x /\ x < e
       /\ calls[x].h = "open"
       /\ ~Called("claim_interface")
       /\ ~Called("xfer_out")
       /\ sent = NoFrame
       /\ ~claimed
       /\ ret = IF lastOp = "init" THEN calls[k].res ELSE EXIT_FAILURE_1

\* corsair_init met an active kernel driver that could not be detached
C8_Witness ==
  /\ lastOp = "init"
  /\ kdriver = "active"
  /\ \E k \in CallIdx("detach_kernel_driver") : calls[k].res = LIBUSB_ERROR_BUSY
  /\ ret = LIBUSB_ERROR_BUSY
  /\ nOpen = nClose

\* the last operation tore down a handle whose interface was claimed
ReleasedClaimed ==
  /\ lastOp \in {"close", "control_main"}
  /\ \E r \in CallIdx("release_interface") : calls[r].h = "open"

\* C9: release on a claimed handle releases the interface, closes the device
\* and invalidates the handle whatever the release returned, and a kernel
\* driver that acquire detached is never left detached without a re-attach
\* having been tried between the release and the close.
C9_ReleaseReattachesDriver ==
  ReleasedClaimed =>
     \E r \in CallIdx("release_interface"), x \in CallIdx("close") :
       /\ r < x
       /\ ~claimed
       /\ handle # "open"
       /\ kdriver = "detached" =>
            \E a \in CallIdx("attach_kernel_driver") : r < a /\ a < x

\* C10: corsair_set_pump_speed and corsair_set_fan_speed send 100 in the
\* percent field for every requested percent above 100 and the requested value
\* for 0..100; clamping a clamped value changes nothing.
C10_PercentClamped ==
  /\ lastOp = "set_pump" =>
       /\ sent[0] = CMD_SET_PUMP
       /\ sent[1] = (IF args[1] > 100 THEN 100 ELSE args[1])
  /\ lastOp = "set_fan" =>
       /\ sent[0] = CMD_SET_FAN
       /\ sent[2] = (IF args[2] > 100 THEN 100 ELSE args[2])
  /\ \A p \in Byte : Clamp(p) \in 0..100 /\ Clamp(Clamp(p)) = Clamp(p)

\* a fan was set to 255 percent and the frame on the wire says 100
C10_Witness ==
  /\ lastOp = "set_fan"
  /\ handle = "open"
  /\ args[2] = 255
  /\ sent[2] = 100
  /\ calls = <<Call("xfer_out", "open", LIBUSB_SUCCESS)>>


\* C11: for every opcode and every payload of L <= 63 bytes, the frame handed
\* to the EP_OUT transfer has exactly 64 bytes: the opcode at 0, the payload
\* at 1..L in order and zero at L+1..63, whatever the buffer held before.
C11_FrameLayout ==
  (lastOp = "send_command" /\ Len(args[2]) <= BUFSZ - 1) =>
     /\ DOMAIN sent = 0..63
     /\ sent[0] = args[1]
     /\ \A i \in 1..63 : sent[i] = (IF i <= Len(args[2]) THEN args[2][i] ELSE 0)
     /\ overrun = 0
     /\ \E k \in CallIdx("xfer_out") : TRUE

\* an empty payload was sent right after a status read had filled the buffer
C11_Witness ==
  /\ lastOp = "send_command" /\ prevOp = "get_status"
  /\ handle = "open"
  /\ args[2] = << >>
  /\ sent[0] = 255 /\ sent[1] = 0 /\ sent[63] = 0
  /\ ~crashed

\* C12: a payload of more than 63 bytes, here on a claimed handle, is refused
\* with an error: no byte is written outside the 64-byte buffer and no
\* transfer is issued.
C12_PayloadTooLargeRejected ==
  (lastOp = "send_command" /\ Len(args[2]) > BUFSZ - 1 /\ handle = "open") =>
     /\ overrun = 0
     /\ ~Called("xfer_out")
     /\ ret < 0
     /\ ~crashed

\* C13: the status printed after a read is a function of the buffer alone:
\* tenths of a degree 10*b[1] + b[2], pump 256*b[3] + b[4], fan 1
\* 256*b[5] + b[6], fan 2 256*b[7] + b[8]; the frame
\* [_, 25, 5, 0x0B, 0xB8, 0x0C, 0x1C, 0x0C, 0x1C, ...] prints 25.5, 3000, 3100, 3100.
C13_DecodeStatus ==
  /\ report.valid =>
       /\ lastOp = "get_status"
       /\ report.temp10 = 10 * buffer[1] + buffer[2]
       /\ report.pump = 256 * buffer[3] + buffer[4]
       /\ report.fan1 = 256 * buffer[5] + buffer[6]
       /\ report.fan2 = 256 * buffer[7] + buffer[8]
  /\ (report.valid /\ <<buffer[1], buffer[2], buffer[3], buffer[4]>> = <<25, 5, 11, 184>>
        /\ <<buffer[5], buffer[6], buffer[7], buffer[8]>> = <<12, 28, 12, 28>>) =>
       report = [valid |-> TRUE, temp10 |-> 255, pump |-> 3000, fan1 |-> 3100, fan2 |-> 3100]

\* the example frame was read in full and printed
C13_Witness ==
  /\ lastOp = "get_status"
  /\ handle = "open" /\ claimed
  /\ transferred = BUFSZ
  /\ buffer[3] = 11 /\ buffer[4] = 184
  /\ report.valid /\ report.pump = 3000 /\ report.temp10 = 255

\* the frame with opcode op, payload bytes p and zeros after it
Expected(op, p) == [i \in 0..63 |-> IF i = 0 THEN op ELSE IF i <= Len(p) THEN p[i] ELSE 0]
Capped(p) == IF p > 100 THEN 100 ELSE p

\* C14: every controller operation makes exactly one EP_OUT transfer, of the
\* frame: 0x13 [percent, 0] for set_pump_speed, 0x12 [fan_index, percent] for
\* set_fan_speed with the fan index as given, 0x23 [mode, r, g, b] for set_led,
\* 0x01 and no payload for get_status.
C14_OpcodeAndPayload ==
  /\ lastOp \in {"set_pump", "set_fan", "set_led", "get_status"} =>
       CountFn(calls, "xfer_out") = 1
  /\ lastOp = "set_pump" => sent = Expected(19, <<Capped(args[1]), 0>>)
  /\ lastOp = "set_fan" => sent = Expected(18, <<args[1], Capped(args[2])>>)
  /\ lastOp = "set_led" => sent = Expected(35, args)
  /\ lastOp = "get_status" => sent = Expected(1, << >>)

\* fan index 255 went out unchanged
C14_Witness ==
  /\ lastOp = "set_fan"
  /\ handle = "open"
  /\ args = <<255, 100>>
  /\ sent[0] = 18 /\ sent[1] = 255 /\ sent[2] = 100
  /\ ret = 0

\* C15: when a transfer made by set_pump_speed, set_fan_speed, set_led,
\* send_command, get_status or corsair_init fails with e, the operation
\* returns exactly e.
C15_TransportErrorsUnchanged ==
  (lastOp \in {"set_pump", "set_fan", "set_led", "send_command", "get_status", "init"}
   /\ ~crashed) =>
     /\ \A k \in 1..Len(calls) : (IsTransfer(calls[k]) /\ calls[k].res < 0) => ret = calls[k].res
     /\ (lastOp # "init" /\ \A k \in 1..Len(calls) : IsTransfer(calls[k]) => calls[k].res >= 0)
          => ret = 0

\* a read on a claimed handle failed with LIBUSB_ERROR_NO_DEVICE
C15_Witness ==
  /\ lastOp = "get_status"
  /\ handle = "open"
  /\ \E k \in CallIdx("xfer_in") : calls[k].res = LIBUSB_ERROR_NO_DEVICE
  /\ ret = LIBUSB_ERROR_NO_DEVICE


\* the last operation wrote a command frame (not the INIT frame of corsair_init)
CommandWritten ==
  lastOp \in {"get_status", "set_pump", "set_fan", "set_led", "send_command"}
  /\ Called("xfer_out")

\* the calls of an operation show a claimed interface, then a successful
\* write, then the settle sleep of corsair_init
InitHandshake(cs) ==
  \E c \in 1..Len(cs), k \in 1..Len(cs), u \in 1..Len(cs) :
    /\ c < k /\ k < u
    /\ cs[c] = Call("claim_interface", "open", LIBUSB_SUCCESS)
    /\ cs[k] = Call("xfer_out", "open", LIBUSB_SUCCESS)
    /\ cs[u] = Call("usleep", "time", 500000)

\* C16: in every run of main of corsair_h80i_v2.c a command frame is written
\* only on the open, claimed handle; a handle becomes open only by a
\* corsair_init that claimed the interface, wrote the INIT frame (0x00 and 63
\* zero bytes) successfully and slept the settle interval; and once
\* corsair_init has failed nothing more happens.
C16_CommandsOnlyAfterInit ==
  /\ []((prog = "main" /\ CommandWritten) =>
          /\ \A k \in CallIdx("xfer_out") : calls[k].h = "open"
          /\ handle = "open" /\ claimed
          /\ nOps > 1)
  /\ [][(handle # "open" /\ handle' = "open") =>
          /\ lastOp' = "init" /\ ret' = 0
          /\ InitHandshake(calls')
          /\ sent' = [i \in 0..63 |-> 0]]_vars
  /\ [][(prog = "main" /\ lastOp = "init" /\ ret < 0) => UNCHANGED vars]_vars

\* main got through corsair_init and is setting the LED
C16_Witness ==
  /\ prog = "main"
  /\ nOps = 6
  /\ lastOp = "set_led"
  /\ sent[0] = 35 /\ sent[4] = 255
  /\ calls = <<Call("xfer_out", "open", LIBUSB_SUCCESS)>>

\* C17: the exchange is sequential and single-shot: an operation makes at most
\* one write transfer and at most one read transfer, and a read is made only
\* by get_status, as its third call, after its write has returned without
\* error and the settle sleep; a failed or timed-out transfer is not repeated.
C17_SingleShotExchange ==
  /\ CountFn(calls, "xfer_out") <= 1
  /\ CountFn(calls, "xfer_in") <= 1
  /\ \A k \in CallIdx("xfer_in") :
       /\ lastOp = "get_status"
       /\ k = 3 /\ Len(calls) = 3
       /\ calls[1].fn = "xfer_out" /\ calls[1].res >= 0
       /\ calls[2] = Call("usleep", "time", 50000)
  /\ lastOp \in {"set_pump", "set_fan", "set_led", "send_command"} => Len(calls) = 1

\* a read on a claimed handle failed as busy and was not tried again
C17_Witness ==
  /\ lastOp = "get_status"
  /\ handle = "open"
  /\ Len(calls) = 3
  /\ calls[3] = Call("xfer_in", "open", LIBUSB_ERROR_BUSY)
  /\ ret = LIBUSB_ERROR_BUSY

\* C18: every opened handle is closed at most once and every successful
\* libusb_init is matched by at most one libusb_exit; no libusb call is given an
\* already closed handle, and a corsair_close after a failed corsair_init is a
\* no-op.
C18_ClosedExactlyOnce ==
  /\ nClose <= nOpen
  /\ nExit <= nInitOk
  /\ lastOp = "close" => \A k \in 1..Len(calls) : calls[k].h # "closed"
  /\ (prog = "v2" /\ lastOp = "close" /\ prevOp = "init" /\ ret < 0) => calls = << >>

\* C19: whenever a program closes the device while the kernel driver it
\* detached is still detached, it has tried to re-attach the driver before
\* the close.
C19_ReattachBeforeClose ==
  \A x \in CallIdx("close") :
    (calls[x].h = "open" /\ kdriver = "detached" /\ lastOp \in {"init", "close", "control_main"}) =>
       \E a \in CallIdx("attach_kernel_driver") : a < x /\ calls[a].h = "open"

\* C20: a read that succeeds with fewer than 64 bytes does not fail
\* get_status: the status is printed from the buffer, and every buffer byte at
\* or beyond the number of bytes received is zero.
C20_ShortReadZeroFilled ==
  (lastOp = "get_status" /\ ~crashed
   /\ \E k \in CallIdx("xfer_in") : calls[k].res >= 0) =>
     /\ ret = 0
     /\ report.valid
     /\ report.temp10 = 10 * buffer[1] + buffer[2]
     /\ report.pump = 256 * buffer[3] + buffer[4]
     /\ \A i \in 0..63 : i >= transferred => buffer[i] = 0

\* two bytes of an all-0xFF answer arrived: the pump reads 0, not stale bytes
C20_Witness ==
  /\ lastOp = "get_status"
  /\ handle = "open"
  /\ transferred = 2
  /\ buffer[1] = 255 /\ buffer[2] = 0
  /\ report.valid /\ report.temp10 = 2550 /\ report.pump = 0
  /\ ret = 0

====
